---- MODULE Spec2Model ----
(***************************************************************************)
(* The sequence combinator of tinybaker (tinybaker/combinators/sequence.py) *)
(* as a state machine: sequence() is applied to a list of step definitions *)
(* and a set of exposed intermediates; a returned Sequence is then run     *)
(* (Sequence.script): phase 1 plans and instantiates every step, phase 2   *)
(* builds the instances in order.                                          *)
(***************************************************************************)
EXTENDS Integers, Sequences, FiniteSets, TLC

\* The tags the step definitions of the model may declare.
Tags == {"raw", "clean", "report"}

\* Longest step list handed to sequence().
MaxSteps == 3

\* A step definition: its declared input_file_set and output_file_set.  The
\* model's step definitions declare at most two tags altogether.
StepDefs ==
  {s \in [input_file_set : SUBSET Tags, output_file_set : SUBSET Tags] :
     Cardinality(s.input_file_set) + Cardinality(s.output_file_set) <= 2}

StepLists == UNION {[1..n -> StepDefs] : n \in 0..MaxSteps}

VARIABLES
  seq_steps,              \* argument of sequence(): the list of step definitions
  exposed_intermediates,  \* argument of sequence(): the tags to expose
  pc,                     \* position of the program
  result,                 \* what sequence() returned or raised
  sequence_instance_id,   \* script(): the run's identifier (0: none yet)
  uuids,                  \* number of uuid4() values drawn so far
  folders,                \* the directories the run has created
  prev_output_paths,      \* script(): output paths of the step planned last
  instances,              \* script(): the step instances built in phase 1
  builds,                 \* the build() calls of phase 2, as a log of events
  overwrite,              \* the flag the composite's own build() was called with
  script_exc,             \* the exception that left script() ("": none)
  parked,                 \* a second run of the same composite, while it waits
  generated_paths         \* script(): generated_output_paths of the iteration
                          \* under way, while its temp file names are drawn

vars == <<seq_steps, exposed_intermediates, pc, result, sequence_instance_id,
          uuids, folders, prev_output_paths, instances, builds, overwrite,
          script_exc, parked, generated_paths>>

----------------------------------------------------------------------------
\* _build_lexical_scope

EXTERNAL == -1

\* Mutant: counting a reference forgets where the tag came from.
inc_ref_count_external(ref) == <<EXTERNAL, ref[2] + 1>>

\* inc_ref_count: a TagRef is <<origin, refCount>>.
inc_ref_count(ref) == <<ref[1], ref[2] + 1>>

\* The loop over step.input_file_set: an unseen tag becomes an external
\* with one reference, a seen tag gets one more reference.
ScopeWithInputs(lexical_scope, step) ==
  [tag \in (DOMAIN lexical_scope) \cup step.input_file_set |->
     IF tag \in step.input_file_set
       THEN IF tag \notin DOMAIN lexical_scope
              THEN <<EXTERNAL, 1>>
              ELSE inc_ref_count(lexical_scope[tag])
       ELSE lexical_scope[tag]]

\* Mutant: only a tag an earlier step produced conflicts.
ConflictingOutputs_produced(lexical_scope, step) ==
  {tag \in step.output_file_set \cap DOMAIN lexical_scope :
     lexical_scope[tag][1] # EXTERNAL}

\* The output tags of the step that are in scope already: the loop over
\* step.output_file_set raises on the first of them it meets, and a set is
\* iterated in no fixed order.
ConflictingOutputs(lexical_scope, step) ==
  step.output_file_set \cap DOMAIN lexical_scope

\* The loop over step.output_file_set when none conflicts; i is the
\* zero-based index of the step.
ScopeWithOutputs(lexical_scope, step, i) ==
  [tag \in (DOMAIN lexical_scope) \cup step.output_file_set |->
     IF tag \in step.output_file_set THEN <<i, 0>> ELSE lexical_scope[tag]]

\* The outcomes of the loop from the step at (one-based) position n on:
\* the scope returned, or the BakerError raised for one conflicting tag.
RECURSIVE ScopeFrom(_, _, _)
ScopeFrom(steps, n, lexical_scope) ==
  IF n > Len(steps)
    THEN {[raised |-> FALSE, tag |-> "", lexical_scope |-> lexical_scope]}
    ELSE LET with_inputs == ScopeWithInputs(lexical_scope, steps[n])
             conflicts == ConflictingOutputs(with_inputs, steps[n])
         IN IF conflicts # {}
              THEN {[raised |-> TRUE, tag |-> t, lexical_scope |-> <<>>] :
                      t \in conflicts}
              ELSE ScopeFrom(steps, n + 1,
                             ScopeWithOutputs(with_inputs, steps[n], n - 1))

build_lexical_scope(steps) == ScopeFrom(steps, 1, <<>>)

----------------------------------------------------------------------------
\* exceptions and return values of sequence()

Raise(exc, msg, tags) ==
  [kind |-> "raise", exc |-> exc, msg |-> msg, tags |-> tags,
   input_file_set |-> {}, output_file_set |-> {}]

Return(kind, ins, outs) ==
  [kind |-> kind, exc |-> "", msg |-> "", tags |-> {},
   input_file_set |-> ins, output_file_set |-> outs]

NoResult == Return("none", {}, {})

\* raise BakerError("Multiple steps in sequence generate output tag {}")
MultipleGenerate(tag) == Raise("BakerError", "Multiple steps in sequence generate output tag", {tag})

----------------------------------------------------------------------------
\* _determine_sequence_interface

seq_input_file_set(lexical_scope) ==
  {tag \in DOMAIN lexical_scope : lexical_scope[tag][1] = EXTERNAL}

\* Mutant: every tag produced inside counts as an output, consumed or not.
raw_output_file_set_produced(lexical_scope) ==
  {tag \in DOMAIN lexical_scope : lexical_scope[tag][1] # EXTERNAL}

\* Mutant: a tag consumed once still counts as an output.
raw_output_file_set_single_use(lexical_scope) ==
  {tag \in DOMAIN lexical_scope : lexical_scope[tag][2] <= 1}

raw_output_file_set(lexical_scope) ==
  {tag \in DOMAIN lexical_scope : lexical_scope[tag][2] = 0}

\* Mutant: every tag in scope may be exposed.
non_inputs_all(lexical_scope) == DOMAIN lexical_scope

non_inputs(lexical_scope) ==
  (DOMAIN lexical_scope) \ seq_input_file_set(lexical_scope)

\* The tags the error message lists: ", ".join(exposed_intermediates).
items(exposed) == exposed

\* Mutant: the exposed intermediates are not validated.
InterfaceOfScope_unchecked(lexical_scope, exposed) ==
  Return("Sequence", seq_input_file_set(lexical_scope),
         raw_output_file_set(lexical_scope) \cup exposed)

\* Mutant: an exposed tag need only be in scope.
InterfaceOfScope_in_scope(lexical_scope, exposed) ==
  IF Cardinality(exposed \ DOMAIN lexical_scope) # 0
    THEN Raise("BakerError", "Attempting to expose non-generated intermediate(s)",
               items(exposed))
    ELSE Return("Sequence", seq_input_file_set(lexical_scope),
                raw_output_file_set(lexical_scope) \cup exposed)

InterfaceOfScope(lexical_scope, exposed) ==
  IF Cardinality(exposed \ non_inputs(lexical_scope)) # 0
    THEN Raise("BakerError", "Attempting to expose non-generated intermediate(s)",
               items(exposed))
    ELSE Return("Sequence", seq_input_file_set(lexical_scope),
                raw_output_file_set(lexical_scope) \cup exposed)

determine_sequence_interface(steps, exposed) ==
  {IF o.raised THEN MultipleGenerate(o.tag)
               ELSE InterfaceOfScope(o.lexical_scope, exposed) :
     o \in build_lexical_scope(steps)}

----------------------------------------------------------------------------
\* sequence

\* Mutant: a list of one step is validated like a longer one.
sequence_validates_single(steps, exposed) ==
  IF Len(steps) < 1
    THEN {Raise("BakerError", "Cannot sequence fewer than 1 event", {})}
    ELSE determine_sequence_interface(steps, exposed)

sequence(steps, exposed) ==
  IF Len(steps) < 1
    THEN {Raise("BakerError", "Cannot sequence fewer than 1 event", {})}
  ELSE IF Len(steps) = 1
    THEN {Return("step", steps[1].input_file_set, steps[1].output_file_set)}
  ELSE {MultipleGenerate(o.tag) : o \in {b \in build_lexical_scope(steps) : b.raised}}
       \cup
       (IF \E b \in build_lexical_scope(steps) : ~b.raised
          THEN determine_sequence_interface(steps, exposed)
          ELSE {})

----------------------------------------------------------------------------
\* A returned Sequence class used as a step of another list: what the
\* scope resolver reads of it are its class attributes input_file_set and
\* output_file_set.
AsStep(composite) ==
  [input_file_set |-> composite.input_file_set,
   output_file_set |-> composite.output_file_set]

\* sequence([sequence([A, B]), C]) for a list [A, B, C]: the outcomes of the
\* outer call, none when the inner call raises.
Nested(steps) ==
  UNION {sequence(<<AsStep(inner), steps[3]>>, {}) :
           inner \in {r \in sequence(SubSeq(steps, 1, 2), {}) : r.kind = "Sequence"}}

\* A run of the composite that has not begun: the composite's build() has
\* not been called.
NotStarted ==
  [pc |-> "returned", sequence_instance_id |-> 0, prev_output_paths |-> <<>>,
   instances |-> <<>>, builds |-> <<>>, overwrite |-> FALSE, script_exc |-> "",
   generated_paths |-> <<>>]

Init ==
  /\ seq_steps \in StepLists
  /\ exposed_intermediates = {}
  /\ pc = "call"
  /\ result = NoResult
  /\ sequence_instance_id = 0
  /\ uuids = 0
  /\ folders = {}
  /\ prev_output_paths = <<>>
  /\ instances = <<>>
  /\ builds = <<>>
  /\ overwrite = FALSE
  /\ script_exc = ""
  /\ parked = NotStarted
  /\ generated_paths = <<>>

\* sequence(seq_steps, exposed_intermediates) is called with any set of
\* tags to expose, and returns or raises.
Compose ==
  /\ pc = "call"
  /\ \E exposed \in SUBSET Tags :
       /\ exposed_intermediates' = exposed
       /\ \E r \in sequence(seq_steps, exposed) : result' = r
  /\ pc' = "returned"
  /\ UNCHANGED <<seq_steps, sequence_instance_id, uuids,
                 folders, prev_output_paths, instances, builds, overwrite,
                 script_exc, parked,
                 generated_paths>>

----------------------------------------------------------------------------
\* Sequence.script, phase 1: build instances

\* uuid4(): the n-th value drawn, each distinct from the others.
uuid4(n) == ToString(n)

\* The path the caller of the composite supplies for one of its tags
\* (self.input_files[tag].path, self.output_files[tag].path).
CallerPath(tag) == [folder |-> "/d", file |-> tag]

\* seq_input_paths and seq_output_paths: one path for each tag of the
\* composite's interface.
seq_input_paths == [tag \in result.input_file_set |-> CallerPath(tag)]
seq_output_paths == [tag \in result.output_file_set |-> CallerPath(tag)]

\* Mutant: the folder is not named after the run.
TempFolder_shared(sid) == "/tmp/tinybaker-" \o uuid4(0)

\* folder = "/tmp/tinybaker-{}".format(sid)
TempFolder(sid) == "/tmp/tinybaker-" \o uuid4(sid)

\* Mutant: the file is named after the run, not after a new uuid4().
generate_temp_filename_per_run(sid, n) ==
  [folder |-> TempFolder(sid), file |-> uuid4(sid)]

\* _generate_temp_filename with the uuid4() it draws: "{}/{}".format(folder, uuid4())
generate_temp_filename(sid, n) == [folder |-> TempFolder(sid), file |-> uuid4(n)]

\* Mutant: the run's folder is made as soon as the run begins.
StartRun_mkdir ==
  /\ pc = "returned"
  /\ result.kind = "Sequence"
  /\ overwrite' \in BOOLEAN
  /\ sequence_instance_id' = uuids + 1
  /\ uuids' = uuids + 1
  /\ folders' = folders \cup {TempFolder(uuids + 1)}
  /\ prev_output_paths' = <<>>
  /\ instances' = <<>>
  /\ pc' = "phase1"
  /\ UNCHANGED <<seq_steps, exposed_intermediates, result, builds,
                 script_exc, parked,
                 generated_paths>>

\* The composite is built with either overwrite flag and script()
\* begins: the run's identifier is drawn, nothing is planned yet.
StartRun ==
  /\ pc = "returned"
  /\ result.kind = "Sequence"
  /\ overwrite' \in BOOLEAN
  /\ sequence_instance_id' = uuids + 1
  /\ uuids' = uuids + 1
  /\ prev_output_paths' = <<>>
  /\ instances' = <<>>
  /\ pc' = "phase1"
  /\ UNCHANGED <<seq_steps, exposed_intermediates, result, folders, builds,
                 script_exc, parked,
                 generated_paths>>

\* Mutant: only the first step is given the caller's input paths.
input_paths_from_sequence_first(step) ==
  [tag \in {t \in (DOMAIN seq_input_paths) \cap step.input_file_set :
              instances = <<>>} |-> seq_input_paths[tag]]

input_paths_from_sequence(step) ==
  [tag \in (DOMAIN seq_input_paths) \cap step.input_file_set |-> seq_input_paths[tag]]

\* Mutant: an input produced by the previous step is read at the caller's path.
input_paths_from_prev_caller(step) ==
  [tag \in (DOMAIN prev_output_paths) \cap step.input_file_set |-> CallerPath(tag)]

input_paths_from_prev(step) ==
  [tag \in (DOMAIN prev_output_paths) \cap step.input_file_set |-> prev_output_paths[tag]]

\* d.update(e) of two dicts
Update(d, e) ==
  [tag \in (DOMAIN d) \cup (DOMAIN e) |-> IF tag \in DOMAIN e THEN e[tag] ELSE d[tag]]

input_paths(step) == Update(input_paths_from_sequence(step), input_paths_from_prev(step))

\* The tags of the step that get a generated path.
GeneratedTags(step) == step.output_file_set \ result.output_file_set

output_paths_from_sequence(step) ==
  [tag \in (DOMAIN seq_output_paths) \cap step.output_file_set |-> seq_output_paths[tag]]

\* One iteration of the loop over self.steps: the step's paths are resolved,
\* the step is instantiated with them, and its output paths become the
\* previous ones.  The temp file names are drawn in the order the set of
\* generated tags is iterated in, which is any order.
PlanStep ==
  /\ pc = "phase1"
  /\ Len(instances) < Len(seq_steps)
  /\ LET step == seq_steps[Len(instances) + 1]
         gen == GeneratedTags(step)
     IN \E draw \in [gen -> (uuids + 1)..(uuids + Cardinality(gen))] :
          /\ \A t, u \in gen : draw[t] = draw[u] => t = u
          /\ LET generated_output_paths ==
                   [tag \in gen |-> generate_temp_filename(sequence_instance_id, draw[tag])]
                 output_paths ==
                   Update(generated_output_paths, output_paths_from_sequence(step))
             IN /\ instances' = Append(instances,
                      [input_paths |-> input_paths(step), output_paths |-> output_paths])
                /\ prev_output_paths' = output_paths
          /\ uuids' = uuids + Cardinality(gen)
          /\ folders' = IF gen # {} THEN folders \cup {TempFolder(sequence_instance_id)}
                                    ELSE folders
  /\ UNCHANGED <<seq_steps, exposed_intermediates, pc, result, sequence_instance_id,
                 builds, overwrite, script_exc, parked,
                 generated_paths>>

\* The exceptions a call made by script() may raise.
Exceptions == {"OSError", "StepError"}

\* A call of the loop over self.steps raises and script() has no handler:
\* the exception leaves it before phase 2.  Either os.mkdir raises, when
\* the first temp file name of the run is asked for, and nothing was done;
\* or the step's constructor raises, after the temp file names of the
\* step were generated.
PlanRaises ==
  /\ pc = "phase1"
  /\ Len(instances) < Len(seq_steps)
  /\ LET gen == GeneratedTags(seq_steps[Len(instances) + 1])
         folder == TempFolder(sequence_instance_id)
     IN \/ /\ gen # {}
           /\ folder \notin folders
           /\ script_exc' = "OSError"
           /\ UNCHANGED <<uuids, folders>>
        \/ /\ script_exc' = "StepError"
           /\ uuids' = uuids + Cardinality(gen)
           /\ folders' = IF gen # {} THEN folders \cup {folder} ELSE folders
  /\ pc' = "plan_failed"
  /\ UNCHANGED <<seq_steps, exposed_intermediates, result, sequence_instance_id,
                 prev_output_paths, instances, builds, overwrite, parked,
                 generated_paths>>

----------------------------------------------------------------------------
\* Sequence.script, phase 2: run instances

\* Mutant: the composite's own flag is handed on to the child.
Event_own_flag(ev, i) == [ev |-> ev, step |-> i, overwrite |-> overwrite, exc |-> ""]

\* An event of the log; a build is always called as build(overwrite=True).
Event(ev, i) == [ev |-> ev, step |-> i, overwrite |-> TRUE, exc |-> ""]

\* The indexes of the instances whose build() has been called.
Begun == {builds[k].step : k \in {j \in 1..Len(builds) : builds[j].ev = "begin"}}

\* Mutant: the instances are built last to first.
BeginBuild_reversed ==
  /\ pc \in {"phase1", "phase2"}
  /\ Len(instances) = Len(seq_steps)
  /\ Cardinality(Begun) < Len(instances)
  /\ builds' = Append(builds, Event("begin", Len(instances) - Cardinality(Begun)))
  /\ pc' = "building"
  /\ UNCHANGED <<seq_steps, exposed_intermediates, result, sequence_instance_id,
                 uuids, folders, prev_output_paths, instances, overwrite,
                 script_exc, parked,
                 generated_paths>>

\* Mutant: each instance is built as soon as it is made, in one loop.
BeginBuild_eager ==
  /\ pc \in {"phase1", "phase2"}
  /\ Cardinality(Begun) < Len(instances)
  /\ builds' = Append(builds, Event("begin", Cardinality(Begun) + 1))
  /\ pc' = "building"
  /\ UNCHANGED <<seq_steps, exposed_intermediates, result, sequence_instance_id,
                 uuids, folders, prev_output_paths, instances, overwrite,
                 script_exc, parked,
                 generated_paths>>

\* The loop over the instances is entered, or ends with no instance left.
BeginBuild ==
  /\ pc \in {"phase1", "phase2"}
  /\ Len(instances) = Len(seq_steps)
  /\ Cardinality(Begun) < Len(instances)
  /\ builds' = Append(builds, Event("begin", Cardinality(Begun) + 1))
  /\ pc' = "building"
  /\ UNCHANGED <<seq_steps, exposed_intermediates, result, sequence_instance_id,
                 uuids, folders, prev_output_paths, instances, overwrite,
                 script_exc, parked,
                 generated_paths>>

\* Mutant: the loop over the instances stops one instance early.
BuildReturns_early ==
  /\ pc = "building"
  /\ builds' = Append(builds, Event("return", builds[Len(builds)].step))
  /\ pc' = IF builds[Len(builds)].step >= Len(instances) - 1 THEN "completed" ELSE "phase2"
  /\ UNCHANGED <<seq_steps, exposed_intermediates, result, sequence_instance_id,
                 uuids, folders, prev_output_paths, instances, overwrite,
                 script_exc, parked,
                 generated_paths>>

\* instance.build(overwrite=True) returns.
BuildReturns ==
  /\ pc = "building"
  /\ builds' = Append(builds, Event("return", builds[Len(builds)].step))
  /\ pc' = IF builds[Len(builds)].step = Len(instances) THEN "completed" ELSE "phase2"
  /\ UNCHANGED <<seq_steps, exposed_intermediates, result, sequence_instance_id,
                 uuids, folders, prev_output_paths, instances, overwrite,
                 script_exc, parked,
                 generated_paths>>

\* The event of a build() that raises exception e.
RaiseEvent(i, e) == [Event("raise", i) EXCEPT !.exc = e]

\* Mutant: the exception of a failing build is swallowed and the loop goes on.
BuildRaises_continue ==
  /\ pc = "building"
  /\ \E e \in Exceptions :
       builds' = Append(builds, RaiseEvent(builds[Len(builds)].step, e))
  /\ pc' = IF builds[Len(builds)].step = Len(instances) THEN "completed" ELSE "phase2"
  /\ UNCHANGED <<seq_steps, exposed_intermediates, result, sequence_instance_id,
                 uuids, folders, prev_output_paths, instances, overwrite,
                 script_exc, parked,
                 generated_paths>>

\* instance.build(overwrite=True) raises: script() does not catch the
\* exception, which leaves script() as it is.
BuildRaises ==
  /\ pc = "building"
  /\ \E e \in Exceptions :
       /\ builds' = Append(builds, RaiseEvent(builds[Len(builds)].step, e))
       /\ script_exc' = e
  /\ pc' = "failed"
  /\ UNCHANGED <<seq_steps, exposed_intermediates, result, sequence_instance_id,
                 uuids, folders, prev_output_paths, instances, overwrite, parked,
                 generated_paths>>

Next ==
  \/ Compose
  \/ StartRun
  \/ PlanStep
  \/ PlanRaises
  \/ BeginBuild
  \/ BuildReturns
  \/ BuildRaises

Spec == Init /\ [][Next]_vars

\* The calls of sequence() alone, no composite is run.
SpecCompose == Init /\ [][Compose]_vars

----------------------------------------------------------------------------
\* A run under the scheduling of script(): it is one synchronous call, so
\* each loop goes on as long as it can, and every build() that was called
\* returns or raises.  Whether script() is called at all is up to the
\* caller.  The order of the builds does not depend on the tags, so this
\* specification takes steps of at most one tag.

InitLive ==
  /\ Init
  /\ \A i \in 1..Len(seq_steps) :
       Cardinality(seq_steps[i].input_file_set \cup seq_steps[i].output_file_set) <= 1

SpecLive ==
  /\ InitLive
  /\ [][Next]_vars
  /\ WF_vars(PlanStep)
  /\ WF_vars(BeginBuild)
  /\ WF_vars(BuildReturns \/ BuildRaises)

----------------------------------------------------------------------------
\* Two runs of the same composite.  A run is one call of script() on its own
\* instance of the composite; the two calls share uuid4() and the file
\* system, nothing else, and script() holds no lock.  One run takes steps
\* while the other waits, and they change places at any point: an
\* iteration of the planning loop is a series of steps here, one for each
\* call that reads or changes what the runs share (os.path.exists,
\* os.mkdir, uuid4()) and one for the step's constructor.

\* The tags of the iteration under way that still wait for a temp file name.
TagsToGenerate ==
  GeneratedTags(seq_steps[Len(instances) + 1]) \ DOMAIN generated_paths

\* _generate_temp_filename is entered for one more tag and tests
\* os.path.exists(folder).
TempExists ==
  /\ pc = "phase1"
  /\ Len(instances) < Len(seq_steps)
  /\ TagsToGenerate # {}
  /\ pc' = IF TempFolder(sequence_instance_id) \in folders THEN "uuid4" ELSE "mkdir"
  /\ UNCHANGED <<seq_steps, exposed_intermediates, result, sequence_instance_id,
                 uuids, folders, prev_output_paths, instances, builds, overwrite,
                 script_exc, parked, generated_paths>>

\* os.mkdir(folder) makes the folder, which must not exist.
TempMkdir ==
  /\ pc = "mkdir"
  /\ TempFolder(sequence_instance_id) \notin folders
  /\ folders' = folders \cup {TempFolder(sequence_instance_id)}
  /\ pc' = "uuid4"
  /\ UNCHANGED <<seq_steps, exposed_intermediates, result, sequence_instance_id,
                 uuids, prev_output_paths, instances, builds, overwrite,
                 script_exc, parked, generated_paths>>

\* os.mkdir(folder) raises, as it does when the folder exists by now, and
\* script() has no handler.
TempMkdirRaises ==
  /\ pc = "mkdir"
  /\ script_exc' = "OSError"
  /\ pc' = "plan_failed"
  /\ UNCHANGED <<seq_steps, exposed_intermediates, result, sequence_instance_id,
                 uuids, folders, prev_output_paths, instances, builds, overwrite,
                 parked, generated_paths>>

\* "{}/{}".format(folder, uuid4()): the name is drawn and becomes the path
\* of one of the waiting tags, in the order the set is iterated in.
TempName ==
  /\ pc = "uuid4"
  /\ \E tag \in TagsToGenerate :
       generated_paths' =
         Update(generated_paths,
                [t \in {tag} |-> generate_temp_filename(sequence_instance_id, uuids + 1)])
  /\ uuids' = uuids + 1
  /\ pc' = "phase1"
  /\ UNCHANGED <<seq_steps, exposed_intermediates, result, sequence_instance_id,
                 folders, prev_output_paths, instances, builds, overwrite,
                 script_exc, parked>>

\* The rest of the iteration, once every temp file name is there: the step
\* is instantiated with its paths and its output paths become the previous
\* ones.
Instantiate ==
  /\ pc = "phase1"
  /\ Len(instances) < Len(seq_steps)
  /\ TagsToGenerate = {}
  /\ LET step == seq_steps[Len(instances) + 1]
         output_paths == Update(generated_paths, output_paths_from_sequence(step))
     IN /\ instances' = Append(instances,
              [input_paths |-> input_paths(step), output_paths |-> output_paths])
        /\ prev_output_paths' = output_paths
  /\ generated_paths' = <<>>
  /\ UNCHANGED <<seq_steps, exposed_intermediates, pc, result, sequence_instance_id,
                 uuids, folders, builds, overwrite, script_exc, parked>>

\* The step's constructor raises and script() has no handler.
InstantiateRaises ==
  /\ pc = "phase1"
  /\ Len(instances) < Len(seq_steps)
  /\ TagsToGenerate = {}
  /\ script_exc' = "StepError"
  /\ pc' = "plan_failed"
  /\ UNCHANGED <<seq_steps, exposed_intermediates, result, sequence_instance_id,
                 uuids, folders, prev_output_paths, instances, builds, overwrite,
                 parked, generated_paths>>

ActiveRun ==
  [pc |-> pc, sequence_instance_id |-> sequence_instance_id,
   prev_output_paths |-> prev_output_paths, instances |-> instances,
   builds |-> builds, overwrite |-> overwrite, script_exc |-> script_exc,
   generated_paths |-> generated_paths]

Switch ==
  /\ pc # "call"
  /\ result.kind = "Sequence"
  /\ parked' = ActiveRun
  /\ pc' = parked.pc
  /\ sequence_instance_id' = parked.sequence_instance_id
  /\ prev_output_paths' = parked.prev_output_paths
  /\ instances' = parked.instances
  /\ builds' = parked.builds
  /\ overwrite' = parked.overwrite
  /\ script_exc' = parked.script_exc
  /\ generated_paths' = parked.generated_paths
  /\ UNCHANGED <<seq_steps, exposed_intermediates, result, uuids, folders>>

\* The step lists of the two runs are pipelines of two steps or more: the
\* first step consumes nothing, every other step consumes what the step
\* before it produces, and every step but the last produces something.
\* The temp paths of a run do not depend on the tags a composite takes
\* from its caller.
InitRuns ==
  /\ Init
  /\ Len(seq_steps) \in 2..MaxSteps
  /\ seq_steps[1].input_file_set = {}
  /\ \A i \in 2..Len(seq_steps) :
       /\ seq_steps[i].input_file_set = seq_steps[i - 1].output_file_set
       /\ seq_steps[i - 1].output_file_set # {}

NextRuns ==
  \/ Compose
  \/ StartRun
  \/ TempExists
  \/ TempMkdir
  \/ TempMkdirRaises
  \/ TempName
  \/ Instantiate
  \/ InstantiateRaises
  \/ BeginBuild
  \/ BuildReturns
  \/ BuildRaises
  \/ Switch

SpecRuns == InitRuns /\ [][NextRuns]_vars

----------------------------------------------------------------------------
\* What the step list declares, read off the list itself.

StepIdx == 1..Len(seq_steps)

\* The tags some step consumes, and the tags some step produces.
Consumed == UNION {seq_steps[i].input_file_set : i \in StepIdx}
Produced == UNION {seq_steps[i].output_file_set : i \in StepIdx}

\* The steps that declare tag t as an output.
Producers(t) == {i \in StepIdx : t \in seq_steps[i].output_file_set}

\* The tags that appear before the outputs of step i are declared: the
\* inputs and outputs of the earlier steps and the inputs of step i.
AppearedBefore(i) ==
  UNION {seq_steps[j].input_file_set \cup seq_steps[j].output_file_set :
           j \in 1..(i - 1)}
  \cup seq_steps[i].input_file_set

\* The output tags of some step that have appeared before.
LateOutputs ==
  UNION {seq_steps[i].output_file_set \cap AppearedBefore(i) : i \in StepIdx}

Called == pc # "call"
Accepted == Called /\ result.kind = "Sequence"
ConflictRaised ==
  /\ result.kind = "raise"
  /\ result.msg = "Multiple steps in sequence generate output tag"
ExposeRaised ==
  /\ result.kind = "raise"
  /\ result.msg = "Attempting to expose non-generated intermediate(s)"

\* The steps planned so far in the run.
Planned == 1..Len(instances)

IsTempPath(path) == path.folder = TempFolder(sequence_instance_id)

----------------------------------------------------------------------------
\* C1: the interface of an accepted list of two or more steps: the input
\* set is the tags consumed by some step and produced by none, the output
\* set is the tags produced by some step and consumed by none, united with
\* the exposed intermediates.
C1_Interface ==
  Accepted =>
    /\ Len(seq_steps) >= 2
    /\ result.input_file_set = Consumed \ Produced
    /\ result.output_file_set = (Produced \ Consumed) \cup exposed_intermediates

\* [A, B] of the spec, with and without "clean" exposed.
C1_Witness ==
  /\ Accepted
  /\ Len(seq_steps) = 2
  /\ seq_steps[1] = [input_file_set |-> {"raw"}, output_file_set |-> {"clean"}]
  /\ seq_steps[2] = [input_file_set |-> {"clean"}, output_file_set |-> {"report"}]
  /\ exposed_intermediates = {"clean"}
  /\ result.input_file_set = {"raw"}
  /\ result.output_file_set = {"report", "clean"}

\* C2: every planned step is instantiated with a path for each tag of its
\* declared input set and each tag of its declared output set.
C2_EveryTagHasPath ==
  \A i \in Planned :
    /\ DOMAIN instances[i].input_paths = seq_steps[i].input_file_set
    /\ DOMAIN instances[i].output_paths = seq_steps[i].output_file_set

\* C3: an input path handed to a step for a tag produced inside the
\* sequence is the output path its producer was handed for that tag.
C3_ConsumerReadsProducerPath ==
  \A i \in Planned : \A t \in DOMAIN instances[i].input_paths :
    \A j \in Producers(t) :
      /\ j \in Planned
      /\ instances[i].input_paths[t] = instances[j].output_paths[t]

\* A step is handed a temp path that its predecessor writes, next to a
\* caller-supplied path for an external input.
C3_Witness ==
  \E i \in Planned : \E t, u \in DOMAIN instances[i].input_paths :
    /\ Producers(t) # {}
    /\ IsTempPath(instances[i].input_paths[t])
    /\ Producers(u) = {}
    /\ instances[i].input_paths[u] = CallerPath(u)

\* The output paths handed out in the run, as (step, tag) pairs.
Handed == {<<i, t>> : i \in Planned, t \in Tags} \cap
          {p \in Planned \X Tags : p[2] \in DOMAIN instances[p[1]].output_paths}

\* C4: an output tag of the composite's output set is handed the caller's
\* path; any other output tag is handed a temp path of the run's folder
\* that no other output of the run is handed, and the folder exists.
C4_OutputPaths ==
  \A i \in Planned : \A t \in seq_steps[i].output_file_set :
    /\ t \in DOMAIN instances[i].output_paths
    /\ IF t \in result.output_file_set
         THEN instances[i].output_paths[t] = CallerPath(t)
         ELSE /\ IsTempPath(instances[i].output_paths[t])
              /\ TempFolder(sequence_instance_id) \in folders
              /\ \A p \in Handed :
                   p # <<i, t>> =>
                     instances[p[1]].output_paths[p[2]] # instances[i].output_paths[t]

\* An exposed intermediate is handed the caller's path and consumed by the
\* next step, while another intermediate of the run gets a temp path.
C4_Witness ==
  \E i, j \in Planned : \E t \in exposed_intermediates : \E u \in Tags :
    /\ t \in Consumed
    /\ t \in seq_steps[i].output_file_set
    /\ instances[i].output_paths[t] = CallerPath(t)
    /\ u \in DOMAIN instances[j].output_paths
    /\ IsTempPath(instances[j].output_paths[u])

\* C5: two different steps of a list of two or more steps declare the same
\* output tag x: the call raises the tag-conflict error
\* (TagConflictError) naming x.
C5_DuplicateProducerRaisesTagConflict ==
  (Called /\ Len(seq_steps) >= 2) =>
    \A x \in Tags :
      Cardinality(Producers(x)) >= 2 =>
        /\ result.kind = "raise"
        /\ result.exc = "TagConflictError"
        /\ result.tags = {x}

\* C6: a list of two or more steps is refused with the conflict error
\* exactly when some step declares an output tag that has appeared before
\* (as an input of that step or of an earlier one, or as an output of an
\* earlier one), and the error names one such tag.
C6_OrderSensitiveConflict ==
  (Called /\ Len(seq_steps) >= 2) =>
    LET late == LateOutputs
    IN /\ ConflictRaised <=> late # {}
       /\ ConflictRaised =>
            /\ result.tags \subseteq late
            /\ Cardinality(result.tags) = 1

Reversed(steps) == [i \in 1..Len(steps) |-> steps[Len(steps) + 1 - i]]

\* A list refused only for its order: no tag has two producers, the
\* conflicting tag was consumed before it is produced, and the same steps
\* in the opposite order resolve.
C6_Witness ==
  /\ Called
  /\ Len(seq_steps) >= 2
  /\ ConflictRaised
  /\ \A t \in Tags : Cardinality(Producers(t)) <= 1
  /\ \E b \in build_lexical_scope(Reversed(seq_steps)) : ~b.raised

\* C7: with a conflict-free list of two or more steps the call raises
\* exactly when some exposed tag is produced by no step, and the error
\* then lists every such tag.
C7_ExposeNonGenerated ==
  (Called /\ Len(seq_steps) >= 2 /\ LateOutputs = {}) =>
    /\ result.kind = "raise" <=> exposed_intermediates \ Produced # {}
    /\ result.kind = "raise" =>
         /\ ExposeRaised
         /\ (exposed_intermediates \ Produced) \subseteq result.tags

\* Two offending tags at once, one a pure external input and one absent
\* from scope, both listed.
C7_Witness ==
  /\ Called
  /\ Len(seq_steps) >= 2
  /\ ExposeRaised
  /\ \E t, u \in exposed_intermediates :
       /\ t \in Consumed \ Produced
       /\ u \notin Consumed \cup Produced
       /\ {t, u} \subseteq result.tags

\* C8: the length check decides first: the empty list is refused, and a
\* list of one step returns that step whatever is exposed and whatever the
\* step declares.
C8_LengthCheckFirst ==
  Called =>
    /\ Len(seq_steps) = 0 =>
         /\ result.kind = "raise"
         /\ result.msg = "Cannot sequence fewer than 1 event"
    /\ Len(seq_steps) = 1 =>
         result = Return("step", seq_steps[1].input_file_set,
                         seq_steps[1].output_file_set)

\* A single step that would fail both validations is returned.
C8_Witness ==
  /\ Called
  /\ Len(seq_steps) = 1
  /\ LateOutputs # {}
  /\ exposed_intermediates \ Produced # {}
  /\ result.kind = "step"

\* What the claim calls a malformed sequence.
Malformed ==
  \/ Len(seq_steps) = 0
  \/ LateOutputs # {}
  \/ exposed_intermediates \ Produced # {}

NothingRun == pc = "returned" /\ instances = <<>> /\ builds = <<>>

\* C9 as stated: for every step list, a malformed one makes the call
\* raise, and no child build is ever invoked.
C9_MalformedAlwaysRaises ==
  (Called /\ Malformed) => (result.kind = "raise" /\ NothingRun)

\* C9 as amended: for every step list that is not of length one, a
\* malformed one makes the call raise, and no child build is ever invoked.
C9_MalformedRaisesUnlessSingle ==
  (Called /\ Len(seq_steps) # 1 /\ Malformed) =>
    (result.kind = "raise" /\ NothingRun)

C9_Witness ==
  /\ Called
  /\ Len(seq_steps) >= 2
  /\ LateOutputs = {}
  /\ exposed_intermediates \ Produced # {}
  /\ exposed_intermediates \cap Produced # {}
  /\ result.kind = "raise"
  /\ NothingRun

BeginEvents == {k \in 1..Len(builds) : builds[k].ev = "begin"}

\* The builds begun and neither returned nor failed.
InProgress ==
  {k \in BeginEvents :
     ~\E l \in (k + 1)..Len(builds) :
        builds[l].step = builds[k].step /\ builds[l].ev \in {"return", "raise"}}

\* C10: the child builds of a run begin in list order, each at most once,
\* each after the build before it has returned, and never two at a time.
C10_BuildsInOrder ==
  LET begun == BeginEvents
      running == InProgress
  IN /\ Cardinality(running) <= 1
     /\ \A k \in begun :
          /\ builds[k].step = Cardinality({l \in begun : l <= k})
          /\ builds[k].step \in 1..Len(seq_steps)
          /\ \A l \in begun : builds[l].step = builds[k].step => l = k
          /\ builds[k].step > 1 =>
               /\ k > 1
               /\ builds[k - 1] = Event("return", builds[k].step - 1)
          /\ \A l \in running : l >= k

\* A run of three steps that share no tag, all built.
C10_Witness ==
  /\ pc = "completed"
  /\ Len(seq_steps) = 3
  /\ \A i, j \in StepIdx :
       /\ seq_steps[i].input_file_set \cup seq_steps[i].output_file_set # {}
       /\ i # j =>
            (seq_steps[i].input_file_set \cup seq_steps[i].output_file_set)
            \cap (seq_steps[j].input_file_set \cup seq_steps[j].output_file_set) = {}
  /\ Len(builds) = 6

RaiseEvents == {k \in 1..Len(builds) : builds[k].ev = "raise"}

\* C11: a build that fails ends the run: the failure is the last event of
\* the run, the run is in its failed state, the exception of the build is
\* the one that leaves script(), no later step has been built, and nothing
\* can follow the failed state.
C11_FailFast ==
  /\ \A k \in RaiseEvents :
       /\ k = Len(builds)
       /\ pc = "failed"
       /\ builds[k].exc \in Exceptions
       /\ script_exc = builds[k].exc
       /\ \A l \in BeginEvents : builds[l].step <= builds[k].step
  /\ pc = "failed" =>
       /\ RaiseEvents # {}
       /\ ~ENABLED Next

\* The first of three steps fails: the other two are never built.
C11_Witness ==
  /\ pc = "failed"
  /\ Len(seq_steps) = 3
  /\ Len(builds) = 2
  /\ builds[2] = RaiseEvent(1, "StepError")
  /\ script_exc = "StepError"

\* The paths a run has handed to its steps other than the caller's own.
IntermediatePaths(insts) ==
  UNION {{insts[i].input_paths[t] : t \in DOMAIN insts[i].input_paths}
         \cup {insts[i].output_paths[t] : t \in DOMAIN insts[i].output_paths} :
           i \in 1..Len(insts)}
  \ {CallerPath(t) : t \in Tags}

FoldersOf(paths) == {p.folder : p \in paths}

BothStarted == sequence_instance_id # 0 /\ parked.sequence_instance_id # 0

\* The intermediate paths of a run: those handed to its steps and those
\* generated for the step that is being planned.
RunPaths(run) ==
  IntermediatePaths(run.instances)
  \cup {run.generated_paths[t] : t \in DOMAIN run.generated_paths}

\* C12: two runs of the same composite, interleaved at every call: their
\* temp folders differ, only their two folders are ever made, neither run
\* finds its folder made by the other between its test and its mkdir, each
\* run's intermediate paths lie in its own folder, which exists, and no
\* intermediate path of one run is an intermediate path of the other.
C12_RunsDisjoint ==
  BothStarted =>
    LET mine == RunPaths(ActiveRun)
        theirs == RunPaths(parked)
        my_folder == TempFolder(sequence_instance_id)
        their_folder == TempFolder(parked.sequence_instance_id)
    IN /\ my_folder # their_folder
       /\ folders \subseteq {my_folder, their_folder}
       /\ pc = "mkdir" => my_folder \notin folders
       /\ parked.pc = "mkdir" => their_folder \notin folders
       /\ FoldersOf(mine) \subseteq {my_folder} \cap folders
       /\ FoldersOf(theirs) \subseteq {their_folder} \cap folders
       /\ mine \cap theirs = {}

\* Both runs have planned a step with a temp path and are in the middle of
\* a later iteration: the run that began first waits with a temp file name
\* of that iteration drawn, the other one has found its folder and is
\* about to draw a name.
C12_Witness ==
  /\ BothStarted
  /\ parked.sequence_instance_id < sequence_instance_id
  /\ pc = "uuid4"
  /\ IntermediatePaths(instances) # {}
  /\ parked.pc = "phase1"
  /\ parked.generated_paths # <<>>
  /\ IntermediatePaths(parked.instances) # {}
  /\ Cardinality(folders) = 2

\* C13: every child build of a run is called with overwrite=True, whatever
\* flag the composite's own build was called with.
C13_ChildOverwriteTrue ==
  \A k \in BeginEvents : builds[k].overwrite = TRUE

\* The composite is built with overwrite=False and a child build has begun.
C13_Witness ==
  /\ overwrite = FALSE
  /\ pc = "building"
  /\ BeginEvents # {}
  /\ builds[Len(builds)].overwrite = TRUE

\* C14: every step that consumes a sequence-level input tag is handed the
\* caller's path for it; the previous step's outputs never hold a path for
\* such a tag, so the two sources of input paths never compete.
C14_CallerInputPaths ==
  /\ \A i \in Planned :
       \A t \in seq_steps[i].input_file_set \cap result.input_file_set :
         /\ t \in DOMAIN instances[i].input_paths
         /\ instances[i].input_paths[t] = CallerPath(t)
  /\ pc = "phase1" =>
       (DOMAIN prev_output_paths) \cap (DOMAIN seq_input_paths) = {}

\* The third step reads a sequence-level input right after a step that
\* handed on output paths of its own.
C14_Witness ==
  /\ Len(instances) = 3
  /\ DOMAIN instances[2].output_paths # {}
  /\ \E t \in seq_steps[3].input_file_set \cap result.input_file_set :
       instances[3].input_paths[t] = CallerPath(t)

\* C15: planning precedes running: a child build is called only when
\* every step of the list has its instance, and a run whose planning
\* failed, at whatever step, has called no child build and calls none.
C15_PlanBeforeRun ==
  /\ builds # <<>> => Len(instances) = Len(seq_steps)
  /\ pc = "phase1" => builds = <<>>
  /\ pc = "plan_failed" =>
       /\ builds = <<>>
       /\ script_exc \in Exceptions
       /\ ~ENABLED Next

\* Planning fails at the third step, after two instances were made.
C15_Witness ==
  /\ pc = "plan_failed"
  /\ Len(seq_steps) = 3
  /\ Len(instances) = 2
  /\ builds = <<>>

\* The log of a run that built steps 1..n without a failure.
RECURSIVE SuccessLog(_)
SuccessLog(n) ==
  IF n = 0 THEN <<>>
  ELSE SuccessLog(n - 1) \o <<Event("begin", n), Event("return", n)>>

AllPlanned == pc = "phase1" /\ Len(instances) = Len(seq_steps)

\* C16: with every build returning or raising, a planned run ends: as
\* completed exactly with each of the n steps built once, in order, and
\* all returned; as failed exactly with the steps before the failing one
\* built and returned and the failing one last.  Once ended, the run stays
\* as it is.
C16_RunEnds ==
  /\ AllPlanned ~> (pc \in {"completed", "failed"})
  /\ [](pc = "completed" <=>
          (builds # <<>> /\ builds = SuccessLog(Len(seq_steps))))
  /\ [](pc = "failed" <=>
          \E i \in 1..Len(seq_steps) : \E e \in Exceptions :
            builds = SuccessLog(i - 1) \o <<Event("begin", i), RaiseEvent(i, e)>>)
  /\ [][(pc \in {"completed", "failed"}) => (pc' = pc)]_vars

\* A run of three steps completed after six events.
C16_Witness ==
  /\ pc = "completed"
  /\ Len(seq_steps) = 3
  /\ builds = SuccessLog(3)

\* The outputs of the run that were handed a temp path, and those paths.
TempHanded ==
  {p \in Handed : instances[p[1]].output_paths[p[2]] # CallerPath(p[2])}
TempOutputs == {instances[p[1]].output_paths[p[2]] : p \in TempHanded}

\* C17: sequence() creates no folder and draws no name; a run has at most
\* one folder, named after the run's identifier, which exists exactly when
\* a temp file name has been generated in the run; every temp path of the
\* run lies in it, and no two outputs of the run share a temp file name.
C17_OneLazyFolder ==
  /\ pc \in {"call", "returned"} => (folders = {} /\ uuids = 0)
  /\ pc \notin {"call", "returned"} =>
       /\ sequence_instance_id = 1
       /\ folders \subseteq {TempFolder(sequence_instance_id)}
       /\ folders # {} <=> uuids > 1
       /\ LET temp == TempHanded
              paths == {instances[p[1]].output_paths[p[2]] : p \in temp}
          IN /\ \A path \in paths :
                  /\ path.folder \in folders
                  /\ path.file \in {uuid4(n) : n \in 2..uuids}
             /\ Cardinality({path.file : path \in paths}) = Cardinality(temp)

\* Two steps of one run were given temp paths: the folder was made for the
\* first and found for the second.
C17_Witness ==
  /\ Cardinality(folders) = 1
  /\ \E i, j \in Planned :
       /\ i < j
       /\ \E t \in DOMAIN instances[i].output_paths :
            instances[i].output_paths[t] \in TempOutputs
       /\ \E t \in DOMAIN instances[j].output_paths :
            instances[j].output_paths[t] \in TempOutputs

\* C18: the interface of a composite of two or more steps: no tag is both
\* an input and an output, every output tag has exactly one producer in
\* the list, every input tag has a consumer and no producer.
C18_InterfaceWellFormed ==
  Accepted =>
    /\ result.input_file_set \cap result.output_file_set = {}
    /\ \A t \in result.output_file_set : Cardinality(Producers(t)) = 1
    /\ \A t \in result.input_file_set : t \in Consumed /\ Producers(t) = {}

\* A composite of three steps with an input, an exposed intermediate and a
\* final output.
C18_Witness ==
  /\ Accepted
  /\ Len(seq_steps) = 3
  /\ result.input_file_set # {}
  /\ exposed_intermediates \cap Consumed # {}
  /\ result.output_file_set \ exposed_intermediates # {}

\* The scope after the first k steps, when they are processed without error.
ScopesOf(k) ==
  {o.lexical_scope : o \in {b \in build_lexical_scope(SubSeq(seq_steps, 1, k)) : ~b.raised}}

\* The steps among the first k that list tag t as an input.
ConsumersIn(t, k) == {j \in 1..k : t \in seq_steps[j].input_file_set}

\* C19: the scope after each prefix of the list processed without error: it
\* holds the tags that have appeared; a tag with origin i >= 0 is an output
\* of step i (counted from 0) and is consumed only by later steps; a tag
\* with origin EXTERNAL has no producer; the refCount is the number of
\* processed steps that list the tag as an input; and the origin of a tag
\* is the same after every longer prefix.
C19_ScopeOfPrefix ==
  pc = "returned" =>
    LET scopes == [k \in 0..Len(seq_steps) |-> ScopesOf(k)]
    IN \A k \in DOMAIN scopes : \A sc \in scopes[k] :
         /\ DOMAIN sc = UNION {seq_steps[j].input_file_set \cup seq_steps[j].output_file_set :
                                 j \in 1..k}
         /\ \A t \in DOMAIN sc :
              /\ sc[t][1] \in {EXTERNAL} \cup 0..(k - 1)
              /\ sc[t][1] = EXTERNAL =>
                   \A j \in 1..k : t \notin seq_steps[j].output_file_set
              /\ sc[t][1] # EXTERNAL =>
                   /\ t \in seq_steps[sc[t][1] + 1].output_file_set
                   /\ \A j \in ConsumersIn(t, k) : j - 1 > sc[t][1]
              /\ sc[t][2] = Cardinality(ConsumersIn(t, k))
              /\ \A k2 \in k..Len(seq_steps) : \A sc2 \in scopes[k2] :
                   t \in DOMAIN sc2 /\ sc2[t][1] = sc[t][1]

\* Three steps resolve: one tag comes from the first step and is read by
\* the other two, another tag is external and read twice.
C19_Witness ==
  /\ pc = "returned"
  /\ Len(seq_steps) = 3
  /\ \E sc \in ScopesOf(3) : \E t, u \in DOMAIN sc :
       /\ sc[t] = <<0, 2>>
       /\ sc[u] = <<EXTERNAL, 2>>

\* The case of C20: [A, B, C] was accepted with nothing exposed.
FlatAccepted ==
  /\ pc = "returned"
  /\ Len(seq_steps) = 3
  /\ exposed_intermediates = {}
  /\ result.kind = "Sequence"

\* The tags A produces and B consumes: sequence([A, B]) does not show them.
HiddenInAB == seq_steps[1].output_file_set \cap seq_steps[2].input_file_set

\* C20 as stated: when [A, B, C] is accepted, [sequence([A, B]), C] is
\* accepted with the same input tag set and the same output tag set.
C20_NestingKeepsInterface ==
  FlatAccepted =>
    /\ Nested(seq_steps) # {}
    /\ \A n \in Nested(seq_steps) :
         /\ n.kind = "Sequence"
         /\ n.input_file_set = result.input_file_set
         /\ n.output_file_set = result.output_file_set

\* C20 as amended: when [A, B, C] is accepted, [sequence([A, B]), C] is
\* accepted with the same output tag set, and its input tag set is the one
\* of [A, B, C] together with the tags that A produces and both B and C
\* consume.
C20_NestingKeepsOutputs ==
  FlatAccepted =>
    /\ Nested(seq_steps) # {}
    /\ \A n \in Nested(seq_steps) :
         /\ n.kind = "Sequence"
         /\ n.output_file_set = result.output_file_set
         /\ n.input_file_set =
              result.input_file_set
              \cup (HiddenInAB \cap seq_steps[3].input_file_set)
         /\ n.input_file_set = result.input_file_set
              <=> HiddenInAB \cap seq_steps[3].input_file_set = {}

\* The chain raw -> clean -> report -> nothing: nested and flat agree.
C20_Witness ==
  /\ FlatAccepted
  /\ seq_steps[1] = [input_file_set |-> {"raw"}, output_file_set |-> {"clean"}]
  /\ seq_steps[2] = [input_file_set |-> {"clean"}, output_file_set |-> {"report"}]
  /\ seq_steps[3] = [input_file_set |-> {"report"}, output_file_set |-> {}]
  /\ \A n \in Nested(seq_steps) :
       n = Return("Sequence", {"raw"}, {}) /\ n = result
  /\ Nested(seq_steps) # {}
====
